---- MODULE Spec2Model ----
(***************************************************************************)
(* Job-control layer of AppleMusicTG.                                      *)
(*                                                                         *)
(* Every coroutine runs on one asyncio event loop: the code between two    *)
(* awaits that really suspend is one atomic action; a coroutine that       *)
(* never suspends keeps the event loop to itself.  Tasks made with         *)
(* asyncio.create_task start in the order of their creation.               *)
(*                                                                         *)
(* The repository holds two job queues, utils/download_manager.py          *)
(* (DownloadManager, "DM") and utils/queue_manager.py (DownloadQueue,      *)
(* "DQ").  A behaviour of SpecJobs runs one of them, chosen in Init.       *)
(***************************************************************************)
EXTENDS Integers, Sequences, FiniteSets, TLC

\* ------------------------------------------------------------- bounds
MaxJobs == 3            \* submissions per behaviour
MaxUsers == 2           \* requesters
MaxConcurrent == 2      \* largest max_concurrent tried

Users == 1..MaxUsers
None == "None"

MaxRetries == 1         \* the max_retries the DownloadManager is constructed with
MaxUpdates == 2         \* URL messages handled per behaviour
MaxCallers == 2         \* coroutines calling RateLimiter.wait
MaxKeys == 1            \* rate-limiter keys
MaxTime == 3            \* clock ticks per behaviour
MaxAdmit == 4           \* calls of wait per behaviour
MaxCalls == 2           \* the max_calls the RateLimiter is constructed with
TimeFrame == 2          \* its time_frame, in clock ticks
MaxTracks == 3          \* tracks of one bulk_download
MaxAge == 2             \* the max_age the CacheManager is constructed with, in clock ticks
MaxNow == 4             \* clock ticks of the cache's behaviour
MaxNotes == 3           \* notifications queued per behaviour
MaxNmTime == 2          \* clock ticks of the notification manager's behaviour
MaxNoteRetries == 1     \* the max_retries of the notifications
MaxBwTime == 2          \* clock ticks of the bandwidth tracker's behaviour
MaxBwCalls == 3         \* calls of the bandwidth tracker per behaviour
WindowSize == 1         \* the window_size the BandwidthTracker is constructed with, in ticks
MaxRecords == 2         \* the max_records it is constructed with
TicksPerSecond == 2     \* clock ticks of the progress and bandwidth trackers in one second
MaxPtTime == 3          \* clock ticks that pass in the progress tracker's behaviour
MaxPtCalls == 3         \* calls of update_progress per behaviour
MaxPtBytes == 2         \* the largest byte count passed to update_progress
MaxProcs == 2           \* invocations of process_notification_queue that run at one time
MaxProxies == 2         \* proxies the ProxyManager is constructed with
MaxFailures == 2        \* the max_failures it is constructed with
RotationInterval == 1   \* its rotation_interval, in clock ticks
MaxPmTime == 2          \* clock ticks of the proxy manager's behaviour
MaxPmCalls == 2         \* calls of download_with_proxy per behaviour
MaxPmDepth == 3         \* nested calls of download_with_proxy followed in one call

VARIABLES
    impl,                  \* which job queue the behaviour runs: "DM" or "DQ"
    max_concurrent,        \* self.max_concurrent of the queue
    ret,                   \* the last call and what it returned or raised
    started,               \* history: job ids in the order their task first began to run
    \* ---- DownloadManager
    dm_items,              \* the DownloadItem objects, by job id
    dm_download_queue,     \* self.download_queue (job ids)
    dm_active_downloads,   \* self.active_downloads (keys)
    dm_download_history,   \* self.download_history (job ids)
    dm_loop,               \* start_download_queue: "idle" or "sleep" (line 52)
    dm_ready,              \* tasks created and not yet started
    dm_running,            \* tasks suspended in the download
    \* ---- DownloadQueue
    dq_items,              \* the queue_item dicts, by job id
    dq_queue,              \* self.queue (job ids)
    dq_unfinished,         \* self.queue._unfinished_tasks
    dq_current_downloads,  \* self.current_downloads: user_id -> job id
    dq_loop,               \* start_processing: "idle", "check" (line 28), "get" (line 29)
    dq_ready,              \* tasks created and not yet started
    dq_running,            \* tasks suspended in asyncio.sleep(1), line 43
    \* ---- AppleMusicBot (gamdl_bot.py)
    bot_active_downloads,  \* self.active_downloads: user_id -> task
    bot_download_progress, \* self.download_progress (keys)
    bot_updates,           \* the handle_url calls and the task each started
    \* ---- RateLimiter
    rl_now,                \* time.monotonic(), in clock ticks
    rl_calls,              \* self.calls: key -> list of timestamps
    rl_waiters,            \* the callers of wait: idle, or asleep in line 22
    rl_log,                \* history: the calls of wait that returned
    \* ---- DownloadService
    ds_progress,           \* self.download_progresses, with each call's position
    \* ---- CacheManager
    cache_now,             \* time.time(), in clock ticks
    cache_files,           \* the files of cache_dir: key -> text of <key>.json
    cache_ret,             \* the last call of get or set and what it gave back
    cache_last_set,        \* history: the last call of set on each key
    \* ---- NotificationManager
    nm_now,                \* datetime.now(), in clock ticks
    nm_notes,              \* the Notification objects, by number of creation
    nm_queue,              \* self.notification_queue (numbers)
    nm_sent,               \* self.sent_notifications (numbers)
    nm_failed,             \* self.failed_notifications (numbers)
    nm_expired,            \* history: the notifications logged as expired (line 133)
    nm_proc,               \* the invocations of process_notification_queue
    nm_ret,                \* the last call of get_notification_status and its result
    \* ---- BandwidthTracker
    bw_now,                \* time.time(), in clock ticks
    bw_user,               \* self.user_bandwidth_records: user_id -> list of records
    bw_global,             \* self.global_bandwidth_records
    bw_calls,              \* history: the number of calls of the tracker
    bw_ret,                \* the last call of the tracker and what it gave back
    \* ---- ProgressTracker (one tracker: one tracked job)
    pt_now,                \* time.time(), in clock ticks
    pt_callback,           \* whether self.update_callback is set
    pt_last_update_time,   \* self.last_update_time
    pt_last_bytes,         \* self.last_bytes
    pt_log,                \* history: the calls of update_progress and what the sink got
    \* ---- ProxyManager
    pm_now,                \* datetime.now(), in clock ticks
    pm_proxies,            \* self.proxies: the metrics of each ProxyConfig, in list order
    pm_call                \* the call of download_with_proxy and the request it awaits

commonVars == <<impl, max_concurrent, ret, started>>
dmVars == <<dm_items, dm_download_queue, dm_active_downloads, dm_download_history,
            dm_loop, dm_ready, dm_running>>
dqVars == <<dq_items, dq_queue, dq_unfinished, dq_current_downloads, dq_loop,
            dq_ready, dq_running>>
jobVars == <<commonVars, dmVars, dqVars>>
botVars == <<bot_active_downloads, bot_download_progress, bot_updates>>
rlVars == <<rl_now, rl_calls, rl_waiters, rl_log>>
dsVars == <<ds_progress>>
cacheVars == <<cache_now, cache_files, cache_ret, cache_last_set>>
nmVars == <<nm_now, nm_notes, nm_queue, nm_sent, nm_failed, nm_expired, nm_proc, nm_ret>>
bwVars == <<bw_now, bw_user, bw_global, bw_calls, bw_ret>>
ptVars == <<pt_now, pt_callback, pt_last_update_time, pt_last_bytes, pt_log>>
pmVars == <<pm_now, pm_proxies, pm_call>>
vars == <<jobVars, botVars, rlVars, dsVars, cacheVars, nmVars, bwVars, ptVars, pmVars>>

\* A behaviour runs one component; the others stay as constructed.
DMFrame ==
    impl = "DM" /\ UNCHANGED <<impl, max_concurrent, dqVars, botVars, rlVars, dsVars, cacheVars, nmVars, bwVars, ptVars, pmVars>>
DQFrame ==
    impl = "DQ" /\ UNCHANGED <<impl, max_concurrent, dmVars, botVars, rlVars, dsVars, cacheVars, nmVars, bwVars, ptVars, pmVars>>
BotFrame == UNCHANGED <<jobVars, rlVars, dsVars, cacheVars, nmVars, bwVars, ptVars, pmVars>>
RLFrame == UNCHANGED <<jobVars, botVars, dsVars, cacheVars, nmVars, bwVars, ptVars, pmVars>>
DSFrame == UNCHANGED <<jobVars, botVars, rlVars, cacheVars, nmVars, bwVars, ptVars, pmVars>>
CacheFrame == UNCHANGED <<jobVars, botVars, rlVars, dsVars, nmVars, bwVars, ptVars, pmVars>>
PTFrame == UNCHANGED <<jobVars, botVars, rlVars, dsVars, cacheVars, nmVars, bwVars, pmVars>>
BWFrame == UNCHANGED <<jobVars, botVars, rlVars, dsVars, cacheVars, nmVars, ptVars, pmVars>>
NMFrame == UNCHANGED <<jobVars, botVars, rlVars, dsVars, cacheVars, bwVars, ptVars, pmVars>>
PMFrame == UNCHANGED <<jobVars, botVars, rlVars, dsVars, cacheVars, nmVars, bwVars, ptVars>>

\* what a call gave back: value is "int" (the number is in pos), "None", or the
\* name of the exception it raised
NoCall == [op |-> None, user |-> 0, value |-> None, pos |-> 0]

\* ------------------------------------------------------------- helpers
SeqToSet(s) == {s[i] : i \in DOMAIN s}
\* d[k] = v on a dict
DictSet(d, k, v) == [x \in DOMAIN d \cup {k} |-> IF x = k THEN v ELSE d[x]]
\* del d[k]
DictDel(d, k) == [x \in DOMAIN d \ {k} |-> d[x]]

\* ===================================================== DownloadManager
DMInit ==
    /\ dm_items = <<>>
    /\ dm_download_queue = <<>>
    /\ dm_active_downloads = {}
    /\ dm_download_history = <<>>
    /\ dm_loop = "idle"
    /\ dm_ready = <<>>
    /\ dm_running = {}

\* DownloadItem(user_id=user_id, track_info=download_info)
DownloadItem(u) ==
    [user_id |-> u, status |-> "pending", start_time |-> None,
     end_time |-> None, error |-> None, retries |-> 0]

\* add_download: no test of the requester's other jobs; append, return len
DMAddDownload(u) ==
    /\ DMFrame
    /\ Len(dm_items) < MaxJobs
    /\ dm_items' = Append(dm_items, DownloadItem(u))
    /\ dm_download_queue' = Append(dm_download_queue, Len(dm_items) + 1)
    /\ ret' = [op |-> "add_download", user |-> u, value |-> "int",
               pos |-> Len(dm_download_queue) + 1]
    /\ UNCHANGED <<dm_active_downloads, dm_download_history, dm_loop, dm_ready,
                   dm_running, started>>

\* the test of line 49
DMSlotFree == Cardinality(dm_active_downloads) < max_concurrent

\* (a loop that takes the newest item: download_queue.pop())
DMLoopBodyLifo ==
    /\ IF DMSlotFree
       THEN /\ dm_download_queue' =
                   SubSeq(dm_download_queue, 1, Len(dm_download_queue) - 1)
            /\ dm_ready' =
                   Append(dm_ready, dm_download_queue[Len(dm_download_queue)])
       ELSE UNCHANGED <<dm_download_queue, dm_ready>>
    /\ dm_loop' = "sleep"

\* one turn of the while body, lines 49-52, up to the sleep
DMLoopBody ==
    /\ IF DMSlotFree
       THEN /\ dm_download_queue' = Tail(dm_download_queue)
            /\ dm_ready' = Append(dm_ready, Head(dm_download_queue))
       ELSE UNCHANGED <<dm_download_queue, dm_ready>>
    /\ dm_loop' = "sleep"

\* start_download_queue is called: with an empty queue it returns at once
DMStartDownloadQueue ==
    /\ DMFrame
    /\ dm_loop = "idle"
    /\ IF dm_download_queue = <<>>
       THEN UNCHANGED <<dm_download_queue, dm_ready, dm_loop>>
       ELSE DMLoopBody
    /\ UNCHANGED <<dm_items, dm_active_downloads, dm_download_history,
                   dm_running, ret, started>>

\* asyncio.sleep(1) of line 52 is over; the tasks created before it have begun
DMLoopWake ==
    /\ DMFrame
    /\ dm_loop = "sleep"
    /\ dm_ready = <<>>
    /\ IF dm_download_queue = <<>>
       THEN /\ dm_loop' = "idle"
            /\ UNCHANGED <<dm_download_queue, dm_ready>>
       ELSE DMLoopBody
    /\ UNCHANGED <<dm_items, dm_active_downloads, dm_download_history,
                   dm_running, ret, started>>

\* _process_download, lines 57-58, up to the download (the await of line 62)
DMTaskStart ==
    /\ DMFrame
    /\ dm_ready # <<>>
    /\ LET j == Head(dm_ready) IN
       /\ dm_items' = [dm_items EXCEPT ![j].start_time = "set",
                                       ![j].status = "downloading"]
       /\ dm_running' = dm_running \cup {j}
       /\ started' = IF j \in SeqToSet(started) THEN started ELSE Append(started, j)
    /\ dm_ready' = Tail(dm_ready)
    /\ UNCHANGED <<dm_download_queue, dm_active_downloads, dm_download_history,
                   dm_loop, ret>>

\* (a task that marks the job completed and leaves the history as it is)
DMTaskSucceedNoHistory(j) ==
    /\ DMFrame
    /\ j \in dm_running
    /\ dm_running' = dm_running \ {j}
    /\ dm_items' = [dm_items EXCEPT ![j].end_time = "set",
                                    ![j].status = "completed"]
    /\ UNCHANGED <<dm_download_queue, dm_active_downloads, dm_download_history,
                   dm_loop, dm_ready, ret, started>>

\* the download returned: lines 65-67
DMTaskSucceed(j) ==
    /\ DMFrame
    /\ j \in dm_running
    /\ dm_running' = dm_running \ {j}
    /\ dm_items' = [dm_items EXCEPT ![j].end_time = "set",
                                    ![j].status = "completed"]
    /\ dm_download_history' = Append(dm_download_history, j)
    /\ UNCHANGED <<dm_download_queue, dm_active_downloads, dm_loop, dm_ready,
                   ret, started>>

\* the test of line 73
DMRetryAllowed(retries) == retries <= MaxRetries

\* (a retry that goes to the head of the list: download_queue.insert(0, item))
DMRequeueAtHead(q, j) == <<j>> \o q

\* line 76: self.download_queue.append(download_item)
DMRequeue(q, j) == Append(q, j)

\* the download raised: lines 69-78
DMTaskFail(j) ==
    /\ DMFrame
    /\ j \in dm_running
    /\ dm_running' = dm_running \ {j}
    /\ LET r == dm_items[j].retries + 1 IN
       IF DMRetryAllowed(r)
       THEN /\ dm_items' = [dm_items EXCEPT ![j].retries = r, ![j].error = "set"]
            /\ dm_download_queue' = DMRequeue(dm_download_queue, j)
            /\ UNCHANGED dm_download_history
       ELSE /\ dm_items' = [dm_items EXCEPT ![j].retries = r, ![j].error = "set",
                                            ![j].status = "failed"]
            /\ dm_download_history' = Append(dm_download_history, j)
            /\ UNCHANGED dm_download_queue
    /\ UNCHANGED <<dm_active_downloads, dm_loop, dm_ready, ret, started>>

\* cancel_download(self, user_id): the body is `pass`
DMCancelDownload(u) ==
    /\ DMFrame
    /\ ret' = [op |-> "cancel_download", user |-> u, value |-> None, pos |-> 0]
    /\ UNCHANGED <<dmVars, started>>

\* cancel_handler: DownloadManager.cancel_download(user_id) is called on the
\* class, so user_id binds to self and the call raises TypeError
CancelHandler(u) ==
    /\ DMFrame
    /\ ret' = [op |-> "cancel_handler", user |-> u, value |-> "TypeError", pos |-> 0]
    /\ UNCHANGED <<dmVars, started>>

DMNext ==
    \/ \E u \in Users : DMAddDownload(u)
    \/ DMStartDownloadQueue
    \/ DMLoopWake
    \/ DMTaskStart
    \/ \E j \in dm_running : DMTaskSucceed(j)
    \/ \E j \in dm_running : DMTaskFail(j)
    \/ \E u \in Users : DMCancelDownload(u)
    \/ \E u \in Users : CancelHandler(u)

\* ======================================================= DownloadQueue
DQInit ==
    /\ dq_items = <<>>
    /\ dq_queue = <<>>
    /\ dq_unfinished = 0
    /\ dq_current_downloads = <<>>
    /\ dq_loop = "idle"
    /\ dq_ready = <<>>
    /\ dq_running = {}

\* start_processing runs without suspending: nothing else gets the event loop
DQLoopHoldsEventLoop == dq_loop = "check"

\* add_to_queue: put (the queue is unbounded, put does not suspend), qsize
DQAddToQueue(u) ==
    /\ DQFrame
    /\ ~DQLoopHoldsEventLoop
    /\ Len(dq_items) < MaxJobs
    /\ dq_items' = Append(dq_items, [user_id |-> u])
    /\ dq_queue' = Append(dq_queue, Len(dq_items) + 1)
    /\ dq_unfinished' = dq_unfinished + 1
    /\ ret' = [op |-> "add_to_queue", user |-> u, value |-> "int",
               pos |-> Len(dq_queue) + 1]
    /\ UNCHANGED <<dq_current_downloads, dq_loop, dq_ready, dq_running, started>>

\* start_processing is called
DQStartProcessing ==
    /\ DQFrame
    /\ dq_loop = "idle"
    /\ dq_loop' = "check"
    /\ UNCHANGED <<dq_items, dq_queue, dq_unfinished, dq_current_downloads,
                   dq_ready, dq_running, ret, started>>

\* the test of line 28
DQSlotFree == Cardinality(DOMAIN dq_current_downloads) < max_concurrent

\* lines 29-30 with an item at hand: get returns it, a task is created
DQTakeHead ==
    /\ dq_queue' = Tail(dq_queue)
    /\ dq_ready' = Append(dq_ready, Head(dq_queue))

\* one turn of `while True`, lines 26-30: queue.get() suspends only when the
\* queue is empty; with the test of line 28 false the turn does nothing and no
\* await is reached, so the loop turns again at once
DQLoopTurn ==
    /\ DQFrame
    /\ dq_loop = "check"
    /\ IF DQSlotFree
       THEN IF dq_queue # <<>>
            THEN DQTakeHead /\ UNCHANGED dq_loop
            ELSE dq_loop' = "get" /\ UNCHANGED <<dq_queue, dq_ready>>
       ELSE UNCHANGED <<dq_queue, dq_ready, dq_loop>>
    /\ UNCHANGED <<dq_items, dq_unfinished, dq_current_downloads, dq_running,
                   ret, started>>

\* queue.get() of line 29 resumes after a put: lines 29-30, no second test
DQLoopResume ==
    /\ DQFrame
    /\ dq_loop = "get"
    /\ dq_queue # <<>>
    /\ DQTakeHead
    /\ dq_loop' = "check"
    /\ UNCHANGED <<dq_items, dq_unfinished, dq_current_downloads, dq_running,
                   ret, started>>

\* process_download, lines 39-43, up to asyncio.sleep(1)
DQTaskStart ==
    /\ DQFrame
    /\ ~DQLoopHoldsEventLoop
    /\ dq_ready # <<>>
    /\ LET j == Head(dq_ready) IN
       /\ dq_current_downloads' =
              DictSet(dq_current_downloads, dq_items[j].user_id, j)
       /\ dq_running' = dq_running \cup {j}
       /\ started' = Append(started, j)
    /\ dq_ready' = Tail(dq_ready)
    /\ UNCHANGED <<dq_items, dq_queue, dq_unfinished, dq_loop, ret>>

\* process_download, the finally of lines 44-47
DQTaskFinish(j) ==
    /\ DQFrame
    /\ ~DQLoopHoldsEventLoop
    /\ j \in dq_running
    /\ dq_running' = dq_running \ {j}
    /\ dq_current_downloads' =
           IF dq_items[j].user_id \in DOMAIN dq_current_downloads
           THEN DictDel(dq_current_downloads, dq_items[j].user_id)
           ELSE dq_current_downloads
    /\ dq_unfinished' = dq_unfinished - 1
    /\ UNCHANGED <<dq_items, dq_queue, dq_loop, dq_ready, ret, started>>

\* is_user_downloading(user_id), lines 56-58
DQIsUserDownloading(u) == u \in DOMAIN dq_current_downloads

\* (a scan that returns the index of enumerate as it is: return i)
RECURSIVE DQScanZeroBased(_, _)
DQScanZeroBased(u, i) ==
    IF i >= Len(dq_queue) THEN [value |-> None, pos |-> 0]
    ELSE IF dq_items[dq_queue[i + 1]].user_id = u THEN [value |-> "int", pos |-> i]
    ELSE DQScanZeroBased(u, i + 1)

\* get_queue_position, lines 51-54: enumerate(self.queue._queue) from i on,
\* return i + 1 at the first item of the user, None after the last item
RECURSIVE DQScan(_, _)
DQScan(u, i) ==
    IF i >= Len(dq_queue) THEN [value |-> None, pos |-> 0]
    ELSE IF dq_items[dq_queue[i + 1]].user_id = u THEN [value |-> "int", pos |-> i + 1]
    ELSE DQScan(u, i + 1)

\* get_queue_position(user_id): a synchronous call from a coroutine
DQGetQueuePosition(u) ==
    /\ DQFrame
    /\ ~DQLoopHoldsEventLoop
    /\ ret' = [op |-> "get_queue_position", user |-> u,
               value |-> DQScan(u, 0).value, pos |-> DQScan(u, 0).pos]
    /\ UNCHANGED <<dqVars, started>>

DQNext ==
    \/ \E u \in Users : DQGetQueuePosition(u)
    \/ \E u \in Users : DQAddToQueue(u)
    \/ DQStartProcessing
    \/ DQLoopTurn
    \/ DQLoopResume
    \/ DQTaskStart
    \/ \E j \in dq_running : DQTaskFinish(j)

\* ======================================================= AppleMusicBot
\* config["admin_users"]; user 0 is not among them
admin_users == Users

BotInit ==
    /\ bot_active_downloads = <<>>
    /\ bot_download_progress = {}
    /\ bot_updates = <<>>

\* handle_url, lines 107-129, up to its first await: the handler ends with a
\* reply (handle_errors turns AuthorizationError into one), or it has passed the
\* test of line 118 and is suspended in reply_text, line 129
BotHandleUrl(u, url_valid) ==
    /\ BotFrame
    /\ Len(bot_updates) < MaxUpdates
    /\ LET pc == IF u \notin admin_users THEN "AuthorizationError"
                 ELSE IF ~url_valid THEN "invalid_url"
                 ELSE IF u \in DOMAIN bot_active_downloads THEN "rejected"
                 ELSE "init_reply"
       IN bot_updates' = Append(bot_updates,
              [user |-> u, pc |-> pc, task |-> None, cached |-> None, at |-> None,
               calls |-> <<>>, raised |-> None])
    /\ UNCHANGED <<bot_active_downloads, bot_download_progress>>

\* handle_url, lines 129-133: reply_text returned; create the task, register it
BotHandleUrlRegister(h) ==
    /\ BotFrame
    /\ bot_updates[h].pc = "init_reply"
    /\ bot_updates' = [bot_updates EXCEPT ![h].pc = "accepted", ![h].task = "created"]
    /\ bot_active_downloads' = DictSet(bot_active_downloads, bot_updates[h].user, h)
    /\ UNCHANGED bot_download_progress

\* _process_download begins, lines 138-149 or 138-168, and suspends in its
\* first await: with cached data (a truthy value of cache_manager.get) in the
\* edit of the status message, without in rate_limiter.wait.  Whether the
\* entry is there is the state of the cache directory.
BotTaskBegin(h, hit) ==
    /\ BotFrame
    /\ bot_updates[h].task = "created"
    /\ bot_updates' = [bot_updates EXCEPT
          ![h].task = "running",
          ![h].cached = IF hit THEN "hit" ELSE "miss",
          ![h].at = IF hit THEN "edit_text" ELSE "rate_limiter.wait",
          ![h].calls = IF hit THEN <<"cache_manager.get", "edit_text">>
                       ELSE <<"cache_manager.get", "rate_limiter.wait">>]
    /\ UNCHANGED <<bot_active_downloads, bot_download_progress>>

\* the except of lines 197-200 begins: the error is logged and the status
\* message edited
BotExcept(t, e) ==
    [t EXCEPT !.raised = e, !.at = "edit_text_failed",
              !.calls = Append(@, "edit_text_failed")]

\* apple_music_api and itunes_api are assigned in the else of lines 147-160
\* only: with cached data they are unbound at line 176
BotApisBound(t) == t.cached = "miss"

\* the await the task is suspended in returned: the task runs on to its next
\* await.  dir_made: the directory of the entry's file exists; set raises
\* FileNotFoundError otherwise, the key f"{url}_{region}" of line 141 holding
\* path separators.
BotTaskResume(h, dir_made) ==
    /\ BotFrame
    /\ bot_updates[h].task = "running"
    /\ LET t == bot_updates[h] IN
       /\ t.at \in {"rate_limiter.wait", "_get_track_info", "edit_text",
                    "_download_track", "_send_file"}
       /\ bot_updates' = [bot_updates EXCEPT ![h] =
            CASE t.at = "rate_limiter.wait" ->
                    [t EXCEPT !.at = "_get_track_info",
                              !.calls = Append(@, "_get_track_info")]
              [] t.at = "_get_track_info" ->
                    IF dir_made
                    THEN [t EXCEPT !.at = "edit_text",
                                   !.calls = @ \o <<"cache_manager.set", "edit_text">>]
                    ELSE BotExcept([t EXCEPT !.calls = Append(@, "cache_manager.set")],
                                   "FileNotFoundError")
              [] t.at = "edit_text" ->
                    IF BotApisBound(t)
                    THEN [t EXCEPT !.at = "_download_track",
                                   !.calls = Append(@, "_download_track")]
                    ELSE BotExcept(t, "UnboundLocalError")
              [] t.at = "_download_track" ->
                    [t EXCEPT !.at = "_send_file", !.calls = Append(@, "_send_file")]
              [] t.at = "_send_file" ->
                    [t EXCEPT !.at = "edit_text_completed",
                              !.calls = Append(@, "edit_text_completed")]]
    /\ UNCHANGED <<bot_active_downloads, bot_download_progress>>

\* an await of a collaborator raised (the API, the downloader, the upload,
\* the edit of the status message): the except of lines 197-200
BotTaskRaise(h) ==
    /\ BotFrame
    /\ bot_updates[h].task = "running"
    /\ bot_updates[h].at \in {"_get_track_info", "edit_text", "_download_track",
                              "_send_file", "edit_text_completed"}
    /\ bot_updates' = [bot_updates EXCEPT ![h] = BotExcept(@, "collaborator")]
    /\ UNCHANGED <<bot_active_downloads, bot_download_progress>>

\* progress_callback, lines 181-184
BotProgressCallback(h) ==
    /\ BotFrame
    /\ bot_updates[h].task = "running"
    /\ bot_updates[h].at = "_download_track"
    /\ bot_download_progress' = bot_download_progress \cup {bot_updates[h].user}
    /\ UNCHANGED <<bot_active_downloads, bot_updates>>

\* _process_download with the removal of lines 203-207 as the last statements
\* of the try instead of a finally: only the return after the last edit
\* removes the entries
BotTaskEndWithoutFinally(h) ==
    /\ BotFrame
    /\ bot_updates[h].task = "running"
    /\ bot_updates' = [bot_updates EXCEPT
          ![h].task = "done",
          ![h].at = "ended",
          ![h].raised = IF bot_updates[h].at = "edit_text_completed" THEN None
                        ELSE IF bot_updates[h].at = "edit_text_failed" THEN @
                        ELSE "CancelledError"]
    /\ bot_active_downloads' =
           IF /\ bot_updates[h].at = "edit_text_completed"
              /\ bot_updates[h].user \in DOMAIN bot_active_downloads
           THEN DictDel(bot_active_downloads, bot_updates[h].user)
           ELSE bot_active_downloads
    /\ bot_download_progress' =
           IF bot_updates[h].at = "edit_text_completed"
           THEN bot_download_progress \ {bot_updates[h].user}
           ELSE bot_download_progress

\* _process_download ends: by return after the last edit, by the raise of
\* line 200 (or the raise of the edit before it), or by CancelledError in the
\* await it is suspended in; the finally of lines 203-207
BotTaskFinally(h) ==
    /\ BotFrame
    /\ bot_updates[h].task = "running"
    /\ bot_updates' = [bot_updates EXCEPT
          ![h].task = "done",
          ![h].at = "ended",
          ![h].raised = IF bot_updates[h].at = "edit_text_completed" THEN None
                        ELSE IF bot_updates[h].at = "edit_text_failed" THEN @
                        ELSE "CancelledError"]
    /\ bot_active_downloads' =
           IF bot_updates[h].user \in DOMAIN bot_active_downloads
           THEN DictDel(bot_active_downloads, bot_updates[h].user)
           ELSE bot_active_downloads
    /\ bot_download_progress' = bot_download_progress \ {bot_updates[h].user}

BotNext ==
    \/ \E u \in Users \cup {0}, url_valid \in BOOLEAN : BotHandleUrl(u, url_valid)
    \/ \E h \in DOMAIN bot_updates : BotHandleUrlRegister(h)
    \/ \E h \in DOMAIN bot_updates, hit \in BOOLEAN : BotTaskBegin(h, hit)
    \/ \E h \in DOMAIN bot_updates, dir_made \in BOOLEAN : BotTaskResume(h, dir_made)
    \/ \E h \in DOMAIN bot_updates : BotTaskRaise(h)
    \/ \E h \in DOMAIN bot_updates : BotProgressCallback(h)
    \/ \E h \in DOMAIN bot_updates : BotTaskFinally(h)

\* ========================================================= RateLimiter
Keys == 1..MaxKeys
Callers == 1..MaxCallers
max_calls == MaxCalls
time_frame == TimeFrame

RLInit ==
    /\ rl_now = 0
    /\ rl_calls = <<>>
    /\ rl_waiters = [c \in Callers |-> [pc |-> "idle", key |-> 0, wake |-> 0]]
    /\ rl_log = <<>>

\* line 17: the timestamps of the key that are younger than time_frame
RLPrune(ts, now) == SelectSeq(ts, LAMBDA t : now - t < time_frame)

\* (a test that lets one call too many through: len > max_calls)
RLWindowFullLate(n) == n > max_calls
\* the test of line 19
RLWindowFull(n) == n >= max_calls

\* line 20
RLSleepTime(ts, now) == time_frame - (now - ts[1])

\* the calls of wait begun and not yet returned, and those returned
RLCallsMade == Len(rl_log) + Cardinality({c \in Callers : rl_waiters[c].pc = "sleep"})

\* wait(key), lines 12-24, up to the sleep of line 22 if it is reached
RLWait(c, k) ==
    /\ RLFrame
    /\ rl_waiters[c].pc = "idle"
    /\ RLCallsMade < MaxAdmit
    /\ LET now == rl_now
           old == IF k \in DOMAIN rl_calls THEN rl_calls[k] ELSE <<>>
           ts == RLPrune(old, now)
       IN IF RLWindowFull(Len(ts)) /\ RLSleepTime(ts, now) > 0
          THEN /\ rl_calls' = DictSet(rl_calls, k, ts)
               /\ rl_waiters' = [rl_waiters EXCEPT ![c] =
                      [pc |-> "sleep", key |-> k, wake |-> now + RLSleepTime(ts, now)]]
               /\ UNCHANGED rl_log
          ELSE /\ rl_calls' = DictSet(rl_calls, k, Append(ts, rl_now))
               /\ rl_log' = Append(rl_log,
                      [caller |-> c, key |-> k, t |-> rl_now, slept |-> FALSE])
               /\ UNCHANGED rl_waiters
    /\ UNCHANGED rl_now

\* asyncio.sleep of line 22 returned, not before its time: line 24
RLWake(c) ==
    /\ RLFrame
    /\ rl_waiters[c].pc = "sleep"
    /\ rl_now >= rl_waiters[c].wake
    /\ LET k == rl_waiters[c].key IN
       /\ rl_calls' = [rl_calls EXCEPT ![k] = Append(@, rl_now)]
       /\ rl_log' = Append(rl_log,
              [caller |-> c, key |-> k, t |-> rl_now, slept |-> TRUE])
    /\ rl_waiters' = [rl_waiters EXCEPT ![c] = [pc |-> "idle", key |-> 0, wake |-> 0]]
    /\ UNCHANGED rl_now

\* the clock
RLTick ==
    /\ RLFrame
    /\ rl_now < MaxTime
    /\ rl_now' = rl_now + 1
    /\ UNCHANGED <<rl_calls, rl_waiters, rl_log>>

RLNext ==
    \/ \E c \in Callers, k \in Keys : RLWait(c, k)
    \/ \E c \in Callers : RLWake(c)
    \/ RLTick

\* ===================================================== DownloadService
Tracks == 1..MaxTracks
\* config.get('max_retries', 3), config.get('retry_delay', 5)
ds_max_retries == 3
ds_retry_delay == 5

DSInit ==
    ds_progress = [t \in Tracks |->
        [pc |-> "none", status |-> None, attempts |-> 0, error |-> None,
         delays |-> <<>>]]

\* str(e) of the exception an attempt raised, line 88, and of the exception of
\* line 94
DSAttemptError == "attempt failed"
DSMaxRetriesExceeded == "Max retries exceeded"

\* _handle_final_download_failure, reached from the except of download_track
\* with the exception of line 94
DSFinalFailure(p) ==
    [p EXCEPT !.pc = "raised", !.status = "failed", !.error = DSMaxRetriesExceeded]

\* a turn of the for loop begins, lines 69-74, up to the await of _download_file
DSAttempt(p, attempt) ==
    [p EXCEPT !.pc = "downloading", !.attempts = attempt, !.status = "downloading"]

\* range(1, self.max_retries + 1) holds this attempt
DSInRange(attempt) == attempt >= 1 /\ attempt < ds_max_retries + 1

\* download_track, lines 41-58, into the first turn of _download_with_retry
DSDownloadTrack(t) ==
    /\ DSFrame
    /\ ds_progress[t].pc = "none"
    /\ LET p == [ds_progress[t] EXCEPT !.status = "pending"] IN
       ds_progress' = [ds_progress EXCEPT ![t] =
           IF DSInRange(1) THEN DSAttempt(p, 1) ELSE DSFinalFailure(p)]

\* _download_file returned: lines 80-81
DSAttemptSucceeds(t) ==
    /\ DSFrame
    /\ ds_progress[t].pc = "downloading"
    /\ ds_progress' = [ds_progress EXCEPT ![t].pc = "returned",
                                          ![t].status = "completed"]

\* _download_file raised: lines 83-94
DSAttemptFails(t) ==
    /\ DSFrame
    /\ ds_progress[t].pc = "downloading"
    /\ LET p == [ds_progress[t] EXCEPT !.error = DSAttemptError, !.status = "failed"]
           attempt == p.attempts
       IN ds_progress' = [ds_progress EXCEPT ![t] =
              IF attempt < ds_max_retries
              THEN [p EXCEPT !.pc = "backoff",
                             !.delays = Append(@, ds_retry_delay * attempt)]
              ELSE IF DSInRange(attempt + 1) THEN DSAttempt(p, attempt + 1)
              ELSE DSFinalFailure(p)]

\* asyncio.sleep of line 92 returned: the next turn of the loop
DSBackoffOver(t) ==
    /\ DSFrame
    /\ ds_progress[t].pc = "backoff"
    /\ LET p == ds_progress[t] IN
       ds_progress' = [ds_progress EXCEPT ![t] =
           IF DSInRange(p.attempts + 1) THEN DSAttempt(p, p.attempts + 1)
           ELSE DSFinalFailure(p)]

DSNext ==
    \/ \E t \in Tracks : DSDownloadTrack(t)
    \/ \E t \in Tracks : DSAttemptSucceeds(t)
    \/ \E t \in Tracks : DSAttemptFails(t)
    \/ \E t \in Tracks : DSBackoffOver(t)

\* ======================================================== CacheManager
\* The keys the bot uses are f"{url}_{region}" (gamdl_bot.py, line 141), and
\* a URL holds path separators; "track_us" is a key without one.
CacheKeys == {"track_us", "https://music.apple.com/us/album/1_us"}
KeyHasSeparator(k) == k = "https://music.apple.com/us/album/1_us"

\* the values cached: the track_info dicts of _get_track_info, whose members
\* are the strings, numbers and nulls of the API's JSON
CacheValues == {"track_info_a", "track_info_b"}

max_age == MaxAge

\* The text of a file, by what json.loads makes of it:
\*   "object"        {"timestamp": <number>, "value": <value>}
\*   "garbage"       not JSON (a truncated write, say)
\*   "no_timestamp"  an object without "timestamp"
\*   "no_value"      an object with a number as "timestamp" and no "value"
\*   "bad_timestamp" an object whose "timestamp" is a string or null
\*   "not_object"    JSON whose top level is a list, a string, a number or null
\* and "absent" where there is no file.
NoFile == [kind |-> "absent", timestamp |-> 0, value |-> None]
MalformedKinds == {"garbage", "no_timestamp", "no_value", "bad_timestamp", "not_object"}

\* _get_cache_path(key) = cache_dir / f"{key}.json": with a separator in the
\* key the file lies in a directory below cache_dir, and __init__ makes
\* cache_dir only
CachePathParentExists(k) == ~KeyHasSeparator(k)

\* cache_ret.call tells one call from the next: it alternates
CacheNextCall == 1 - cache_ret.call

CacheInit ==
    /\ cache_now = 0
    /\ cache_files = [k \in CacheKeys |-> NoFile]
    /\ cache_ret = [op |-> None, key |-> None, value |-> None, raised |-> None,
                    unlinked |-> FALSE, call |-> 0]
    /\ cache_last_set =
           [k \in CacheKeys |-> [made |-> FALSE, t |-> 0, value |-> None,
                                 over |-> FALSE, stale |-> FALSE]]

\* json.dumps({"timestamp": time.time(), "value": value})
CacheDumps(v) == [kind |-> "object", timestamp |-> cache_now, value |-> v]

\* (an entry that is given one tick more than max_age)
CacheExpiredLate(f) == cache_now - f.timestamp > max_age + 1

\* line 24: time.time() - data["timestamp"] > self.max_age
CacheExpired(f) == cache_now - f.timestamp > max_age

\* lines 22-30 on an existing file: what get returns or raises, and whether it
\* unlinks the file.  json.loads raises JSONDecodeError on text that is not
\* JSON; data["timestamp"] raises KeyError on an object without the member
\* and TypeError on a list, string, number or null; the subtraction raises
\* TypeError on a timestamp that is no number; data["value"] raises KeyError.
\* The except clause names JSONDecodeError and KeyError.
CacheRead(f) ==
    CASE f.kind = "garbage" -> [value |-> None, raised |-> None, unlink |-> TRUE]
      [] f.kind = "not_object" -> [value |-> None, raised |-> "TypeError", unlink |-> FALSE]
      [] f.kind = "no_timestamp" -> [value |-> None, raised |-> None, unlink |-> TRUE]
      [] f.kind = "bad_timestamp" -> [value |-> None, raised |-> "TypeError", unlink |-> FALSE]
      [] f.kind = "no_value" -> [value |-> None, raised |-> None, unlink |-> TRUE]
      [] f.kind = "object" ->
            IF CacheExpired(f)
            THEN [value |-> None, raised |-> None, unlink |-> TRUE]
            ELSE [value |-> f.value, raised |-> None, unlink |-> FALSE]

\* get(key)
CacheGet(k) ==
    /\ CacheFrame
    /\ LET f == cache_files[k]
           r == IF f.kind = "absent"
                THEN [value |-> None, raised |-> None, unlink |-> FALSE]
                ELSE CacheRead(f)
       IN /\ cache_ret' = [op |-> "get", key |-> k, value |-> r.value,
                           raised |-> r.raised,
                           unlinked |-> r.unlink, call |-> CacheNextCall]
          /\ cache_files' = IF r.unlink THEN [cache_files EXCEPT ![k] = NoFile]
                            ELSE cache_files
    /\ UNCHANGED <<cache_now, cache_last_set>>

\* (a set that keeps the timestamp of the entry it overwrites)
CacheWriteKeepsAge(k, v) ==
    IF cache_files[k].kind = "object"
    THEN [cache_files EXCEPT ![k].value = v]
    ELSE [cache_files EXCEPT ![k] = CacheDumps(v)]

\* line 39: cache_path.write_text(...) where the file can be opened
CacheWrite(k, v) == [cache_files EXCEPT ![k] = CacheDumps(v)]

\* set(key, value): open() raises FileNotFoundError where the directory of
\* the path does not exist
CacheSet(k, v) ==
    /\ CacheFrame
    /\ IF CachePathParentExists(k)
       THEN /\ cache_files' = CacheWrite(k, v)
            /\ cache_ret' = [op |-> "set", key |-> k, value |-> None, raised |-> None,
                             unlinked |-> FALSE, call |-> CacheNextCall]
       ELSE /\ UNCHANGED cache_files
            /\ cache_ret' = [op |-> "set", key |-> k, value |-> None,
                             raised |-> "FileNotFoundError",
                             unlinked |-> FALSE, call |-> CacheNextCall]
    /\ cache_last_set' =
           [cache_last_set EXCEPT ![k] =
               [made |-> TRUE, t |-> cache_now, value |-> v,
                over |-> cache_files[k].kind # "absent",
                stale |-> /\ cache_files[k].kind = "object"
                          /\ CacheExpired(cache_files[k])]]
    /\ UNCHANGED cache_now

\* The file of an entry is damaged outside get and set: a write cut short, a
\* file of another program's making.
CacheCorrupt(k, kind) ==
    /\ CacheFrame
    /\ cache_files[k].kind # "absent"
    /\ cache_files' =
           [cache_files EXCEPT ![k] =
               [kind |-> kind,
                timestamp |-> IF kind = "no_value" THEN cache_files[k].timestamp ELSE 0,
                value |-> None]]
    /\ cache_last_set' = [cache_last_set EXCEPT ![k].made = FALSE]
    /\ UNCHANGED <<cache_now, cache_ret>>

\* time passes
CacheTick ==
    /\ CacheFrame
    /\ cache_now < MaxNow
    /\ cache_now' = cache_now + 1
    /\ UNCHANGED <<cache_files, cache_ret, cache_last_set>>

CacheNext ==
    \/ \E k \in CacheKeys : CacheGet(k)
    \/ \E k \in CacheKeys, v \in CacheValues : CacheSet(k, v)
    \/ \E k \in CacheKeys, kind \in MalformedKinds : CacheCorrupt(k, kind)
    \/ CacheTick

\* ================================================= NotificationManager
\* NotificationPriority
LOW == 1
HIGH == 3
Priorities == {LOW, HIGH}

\* Notification.max_retries
nm_max_retries == MaxNoteRetries

\* expires_at = None, and expires_in left out
NoExpiry == -1
\* the expires_in of a call: left out, 0, or 1 second
ExpiresIn == {NoExpiry, 0, 1}

\* the invocations of process_notification_queue: one, or the background
\* task of main.py and the one of broadcast_notification
Procs == DOMAIN nm_proc
Notes == DOMAIN nm_notes

NMInit(invocations) ==
    /\ nm_now = 0
    /\ nm_notes = <<>>
    /\ nm_queue = <<>>
    /\ nm_sent = <<>>
    /\ nm_failed = <<>>
    /\ nm_expired = {}
    /\ nm_proc = [p \in 1..invocations |-> [pc |-> "idle", cur |-> 0]]
    /\ nm_ret = [id |-> 0, status |-> None]

\* line 113: datetime.now() + timedelta(seconds=expires_in) if expires_in else None
NMExpiresAt(e) == IF e # NoExpiry /\ e # 0 THEN nm_now + e ELSE NoExpiry

\* Notification(...): created_at is datetime.now(), which grows from one
\* creation to the next, so the number of creation stands for it
Notification(pr, e) ==
    [priority |-> pr, created_at |-> Len(nm_notes) + 1, expires_at |-> NMExpiresAt(e),
     retry_count |-> 0, attempts |-> 0]

\* queue_notification: no await in its body
NMQueueNotification(pr, e) ==
    /\ NMFrame
    /\ Len(nm_notes) < MaxNotes
    /\ nm_notes' = Append(nm_notes, Notification(pr, e))
    /\ nm_queue' = Append(nm_queue, Len(nm_notes) + 1)
    /\ UNCHANGED <<nm_now, nm_sent, nm_failed, nm_expired, nm_proc, nm_ret>>

\* lines 124-127: sort(key=(priority, created_at), reverse=True) puts a before
\* b when a's key is the larger
NMSortsBefore(a, b) ==
    \/ nm_notes[a].priority > nm_notes[b].priority
    \/ /\ nm_notes[a].priority = nm_notes[b].priority
       /\ nm_notes[a].created_at > nm_notes[b].created_at

\* the sorted list of the members of S
RECURSIVE NMSortSet(_)
NMSortSet(S) ==
    IF S = {} THEN <<>>
    ELSE LET first == CHOOSE a \in S : \A b \in S \ {a} : NMSortsBefore(a, b)
         IN <<first>> \o NMSortSet(S \ {first})

NMSort(q) == NMSortSet(SeqToSet(q))

\* (a test made only when the notification is popped for the first time)
NMIsExpiredOnFirstPop(n) ==
    /\ nm_notes[n].retry_count = 0
    /\ nm_notes[n].expires_at # NoExpiry
    /\ nm_now > nm_notes[n].expires_at

\* line 132: notification.expires_at and datetime.now() > notification.expires_at
NMIsExpired(n) ==
    nm_notes[n].expires_at # NoExpiry /\ nm_now > nm_notes[n].expires_at

\* (a loop that reads the head of the list and leaves it there: q[0] for q.pop(0))
RECURSIVE NMLoopKeepsHead(_)
NMLoopKeepsHead(q) ==
    IF q = <<>> THEN [queue |-> <<>>, expired |-> <<>>, cur |-> 0]
    ELSE LET sorted == NMSort(q)
             n == Head(sorted)
         IN IF NMIsExpired(n)
            THEN LET r == NMLoopKeepsHead(Tail(sorted))
                 IN [r EXCEPT !.expired = <<n>> \o @]
            ELSE [queue |-> sorted, expired |-> <<>>, cur |-> n]

\* lines 122-137 from the test of `while` up to the await of line 137 or the
\* end of the loop: the list as it is left, the notifications dropped as
\* expired on the way, and the one about to be sent (0 at the end of the loop)
RECURSIVE NMLoop(_)
NMLoop(q) ==
    IF q = <<>> THEN [queue |-> <<>>, expired |-> <<>>, cur |-> 0]
    ELSE LET sorted == NMSort(q)
             n == Head(sorted)
         IN IF NMIsExpired(n)
            THEN LET r == NMLoop(Tail(sorted))
                 IN [r EXCEPT !.expired = <<n>> \o @]
            ELSE [queue |-> Tail(sorted), expired |-> <<>>, cur |-> n]

\* invocation p runs from list q to its next await or to its return
NMRunLoop(p, q, notes) ==
    LET r == NMLoop(q) IN
    /\ nm_queue' = r.queue
    /\ nm_expired' = nm_expired \cup SeqToSet(r.expired)
    /\ nm_proc' = [nm_proc EXCEPT ![p] =
                      IF r.cur = 0 THEN [pc |-> "idle", cur |-> 0]
                      ELSE [pc |-> "send", cur |-> r.cur]]
    /\ nm_notes' = IF r.cur = 0 THEN notes
                   ELSE [notes EXCEPT ![r.cur].attempts = @ + 1]

\* process_notification_queue is called
NMProcessStart(p) ==
    /\ NMFrame
    /\ nm_proc[p].pc = "idle"
    /\ nm_queue # <<>>
    /\ NMRunLoop(p, nm_queue, nm_notes)
    /\ UNCHANGED <<nm_now, nm_sent, nm_failed, nm_ret>>

\* _send_notification returns True (lines 139-140) and the loop goes on
NMSendSucceeds(p) ==
    /\ NMFrame
    /\ nm_proc[p].pc = "send"
    /\ nm_sent' = Append(nm_sent, nm_proc[p].cur)
    /\ NMRunLoop(p, nm_queue, nm_notes)
    /\ UNCHANGED <<nm_now, nm_failed, nm_ret>>

\* (a test that lets every failed delivery be retried)
NMRetryAllowedAlways(n) == TRUE

\* (a test that lets one retry more through)
NMRetryAllowedOnceMore(n) == nm_notes[n].retry_count <= nm_max_retries

\* line 143
NMRetryAllowed(n) == nm_notes[n].retry_count < nm_max_retries

\* _send_notification returns False, having caught whatever the channel
\* raised (lines 141-147), and the loop goes on
NMSendFails(p) ==
    /\ NMFrame
    /\ nm_proc[p].pc = "send"
    /\ LET n == nm_proc[p].cur IN
       IF NMRetryAllowed(n)
       THEN /\ NMRunLoop(p, Append(nm_queue, n),
                         [nm_notes EXCEPT ![n].retry_count = @ + 1])
            /\ UNCHANGED nm_failed
       ELSE /\ nm_failed' = Append(nm_failed, n)
            /\ NMRunLoop(p, nm_queue, nm_notes)
    /\ UNCHANGED <<nm_now, nm_sent, nm_ret>>

\* get_notification_status(id), lines 171-180: the first of sent + failed
\* with the id; {} is status None
NMStatusOf(n) ==
    IF n \in SeqToSet(nm_sent) THEN "sent"
    ELSE IF n \in SeqToSet(nm_failed) THEN "failed"
    ELSE None

NMGetNotificationStatus(n) ==
    /\ NMFrame
    /\ nm_ret' = [id |-> n, status |-> NMStatusOf(n)]
    /\ UNCHANGED <<nm_now, nm_notes, nm_queue, nm_sent, nm_failed, nm_expired, nm_proc>>

\* time passes
NMTick ==
    /\ NMFrame
    /\ nm_now < MaxNmTime
    /\ nm_now' = nm_now + 1
    /\ UNCHANGED <<nm_notes, nm_queue, nm_sent, nm_failed, nm_expired, nm_proc, nm_ret>>

\* queueing and processing, which alone write to the lists
NMQueueNext ==
    \/ \E pr \in Priorities, e \in ExpiresIn : NMQueueNotification(pr, e)
    \/ \E p \in Procs : NMProcessStart(p)
    \/ \E p \in Procs : NMSendSucceeds(p)
    \/ \E p \in Procs : NMSendFails(p)
    \/ NMTick

NMNext ==
    \/ NMQueueNext
    \/ \E n \in Notes : NMGetNotificationStatus(n)

\* ==================================================== BandwidthTracker
window_size == WindowSize
max_records == MaxRecords

\* user_id=None
NoUser == 0
\* bytes_transferred of a call, in megabytes
BwBytes == {1, 2}

BWInit ==
    /\ bw_now = 0
    /\ bw_user = <<>>
    /\ bw_global = <<>>
    /\ bw_calls = 0
    /\ bw_ret = [op |-> None, user |-> NoUser, value |-> 0, removed |-> 0,
                 divisors |-> <<0, 0>>, call |-> 0]

\* bw_ret: the last call (op, user), value: the bytes it recorded or the
\* total_bytes it returned, removed: how many records it took out of the series
\* it wrote, divisors: what it divided total_bytes by for transfer_rate and
\* average_speed; call tells one call from the next: it alternates
BWNextCall == 1 - bw_ret.call

\* BandwidthRecord(timestamp=current_time, bytes_transferred=..., duration=...)
BandwidthRecord(b) == [timestamp |-> bw_now, bytes_transferred |-> b, duration |-> 1]

\* (a window that is open at its old end: record.timestamp > cutoff_time)
BWPruneStrict(records, current_time) ==
    SelectSeq(records, LAMBDA r : r.timestamp > current_time - window_size)

\* _prune_old_records, lines 29-30
BWPrune(records, current_time) ==
    SelectSeq(records, LAMBDA r : r.timestamp >= current_time - window_size)

\* (a limit that keeps the oldest records: records[:max_records])
BWLimitKeepsOldest(records) ==
    IF Len(records) > max_records THEN SubSeq(records, 1, max_records) ELSE records

\* (a tracker without lines 71-72)
BWLimitNever(records) == records

\* lines 71-72: records[-max_records:] where there are more than max_records;
\* records[-0:] is the whole list
BWLimit(records) ==
    IF Len(records) > max_records /\ max_records > 0
    THEN SubSeq(records, Len(records) - max_records + 1, Len(records))
    ELSE records

\* self.user_bandwidth_records.get(user_id, [])
BWSeries(u) == IF u \in DOMAIN bw_user THEN bw_user[u] ELSE <<>>

\* record_bandwidth(user_id, bytes_transferred, duration)
BWRecordBandwidth(u, b) ==
    /\ BWFrame
    /\ bw_calls < MaxBwCalls
    /\ bw_calls' = bw_calls + 1
    /\ bw_global' = BWPrune(Append(bw_global, BandwidthRecord(b)), bw_now)
    /\ bw_user' =
          IF u = NoUser THEN bw_user
          ELSE DictSet(bw_user, u,
                       BWLimit(BWPrune(Append(BWSeries(u), BandwidthRecord(b)), bw_now)))
    /\ bw_ret' = [op |-> "record", user |-> u, value |-> b,
                  removed |-> IF u = NoUser THEN Len(bw_global) + 1 - Len(bw_global')
                              ELSE Len(BWSeries(u)) + 1 - Len(bw_user'[u]),
                  divisors |-> <<0, 0>>, call |-> BWNextCall]
    /\ UNCHANGED bw_now

\* sum(record.bytes_transferred for record in records)
RECURSIVE BWTotalBytes(_)
BWTotalBytes(records) ==
    IF records = <<>> THEN 0
    ELSE Head(records).bytes_transferred + BWTotalBytes(Tail(records))

\* calculate_bandwidth(user_id)['total_bytes'], lines 84-104
BWCalculateTotal(u) ==
    BWTotalBytes(BWPrune(IF u # NoUser THEN BWSeries(u) ELSE bw_global, bw_now))

\* sum(record.duration for record in records), in ticks
RECURSIVE BWTotalDuration(_)
BWTotalDuration(records) ==
    IF records = <<>> THEN 0
    ELSE Head(records).duration + BWTotalDuration(Tail(records))

\* `x or 1`, x a time in ticks: one second where x is 0, and x otherwise
BWOrOne(x) == IF x = 0 THEN TicksPerSecond ELSE x

\* lines 105-111: the divisors of transfer_rate and of average_speed, in
\* ticks; <<0, 0>> where there are no records and nothing is divided
BWDivisors(u) ==
    LET records == BWPrune(IF u # NoUser THEN BWSeries(u) ELSE bw_global, bw_now)
    IN  IF records = <<>> THEN <<0, 0>>
        ELSE <<BWOrOne(bw_now - records[1].timestamp),
               BWOrOne(BWTotalDuration(records))>>

\* calculate_bandwidth(user_id): it stores nothing
BWCalculateBandwidth(u) ==
    /\ BWFrame
    /\ bw_calls < MaxBwCalls
    /\ bw_calls' = bw_calls + 1
    /\ bw_ret' = [op |-> "calculate", user |-> u, value |-> BWCalculateTotal(u),
                  removed |-> 0, divisors |-> BWDivisors(u), call |-> BWNextCall]
    /\ UNCHANGED <<bw_now, bw_user, bw_global>>

\* (a reset that empties the global series whoever is reset)
BWGlobalAfterResetAlways(u) == <<>>

\* lines 149-151
BWGlobalAfterReset(u) == IF u = NoUser THEN <<>> ELSE bw_global

\* reset_bandwidth_tracking(user_id)
BWResetBandwidthTracking(u) ==
    /\ BWFrame
    /\ bw_calls < MaxBwCalls
    /\ bw_calls' = bw_calls + 1
    /\ bw_global' = BWGlobalAfterReset(u)
    /\ bw_user' = IF u # NoUser /\ u \in DOMAIN bw_user THEN DictDel(bw_user, u)
                  ELSE bw_user
    /\ bw_ret' = [op |-> "reset", user |-> u, value |-> 0,
                  removed |-> IF u = NoUser THEN Len(bw_global) ELSE Len(BWSeries(u)),
                  divisors |-> <<0, 0>>, call |-> BWNextCall]
    /\ UNCHANGED bw_now

\* time passes
BWTick ==
    /\ BWFrame
    /\ bw_now < MaxBwTime
    /\ bw_now' = bw_now + 1
    /\ UNCHANGED <<bw_user, bw_global, bw_calls, bw_ret>>

BWNext ==
    \/ \E u \in Users \cup {NoUser}, b \in BwBytes : BWRecordBandwidth(u, b)
    \/ \E u \in Users \cup {NoUser} : BWCalculateBandwidth(u)
    \/ \E u \in Users \cup {NoUser} : BWResetBandwidthTracking(u)
    \/ BWTick

\* ===================================================== ProgressTracker
\* width: int = 10
width == 10
\* the total passed to update_progress
PtTotals == {0, MaxPtBytes}

\* __init__, lines 5-10; time.time() is far more than a second after the epoch
PTInit(callbacks) ==
    /\ pt_now = TicksPerSecond
    /\ pt_callback \in callbacks
    /\ pt_last_update_time = 0
    /\ pt_last_bytes = 0
    /\ pt_log = <<>>

\* calculate_speed, lines 28-35: the speed is a quotient, kept as
\* <<bytes, ticks>>, and <<0, 1>> is the 0 of line 35
PTSpeedMeasured == pt_now - pt_last_update_time >= TicksPerSecond
PTCalculateSpeed(current_bytes) ==
    IF PTSpeedMeasured
    THEN <<current_bytes - pt_last_bytes, pt_now - pt_last_update_time>>
    ELSE <<0, 1>>

\* create_progress_bar, lines 14-24: the filled cells, the counts and the speed
PTCreateProgressBar(current, total) ==
    [filled |-> IF total > 0 /\ current < total THEN (width * current) \div total
                ELSE IF total > 0 THEN width ELSE 0,
     current |-> current,
     total |-> total,
     speed |-> PTCalculateSpeed(current)]

\* line 48: if self.update_callback
PTEmits(current) == pt_callback

\* update_progress(current, total), lines 46-50
PTUpdateProgress(current, total) ==
    /\ PTFrame
    /\ Len(pt_log) < MaxPtCalls
    /\ IF PTEmits(current)
       THEN /\ pt_log' = Append(pt_log, [at |-> pt_now, emitted |-> TRUE,
                                          text |-> PTCreateProgressBar(current, total)])
            /\ IF PTSpeedMeasured
               THEN pt_last_bytes' = current /\ pt_last_update_time' = pt_now
               ELSE UNCHANGED <<pt_last_bytes, pt_last_update_time>>
       ELSE /\ pt_log' = Append(pt_log, [at |-> pt_now, emitted |-> FALSE, text |-> None])
            /\ UNCHANGED <<pt_last_bytes, pt_last_update_time>>
    /\ UNCHANGED <<pt_now, pt_callback>>

\* time passes
PTTick ==
    /\ PTFrame
    /\ pt_now < TicksPerSecond + MaxPtTime
    /\ pt_now' = pt_now + 1
    /\ UNCHANGED <<pt_callback, pt_last_update_time, pt_last_bytes, pt_log>>

PTNext ==
    \/ \E current \in 0..MaxPtBytes, total \in PtTotals : PTUpdateProgress(current, total)
    \/ PTTick

\* ======================================================== ProxyManager
max_failures == MaxFailures
rotation_interval == RotationInterval

\* ProxyMetrics(), lines 11-16; used: last_used is not None
PMNewMetrics ==
    [total_requests |-> 0, successful_requests |-> 0, used |-> FALSE,
     last_used |-> 0, consecutive_failures |-> 0]

\* no proxy: the value None of select_best_proxy
NoProxy == 0

\* __init__ and load_proxies, lines 28-55, with a list of n proxies
PMInit(sizes) ==
    /\ pm_now = 0
    /\ \E n \in sizes : pm_proxies = [i \in 1..n |-> PMNewMetrics]
    /\ pm_call = [pc |-> "idle", proxy |-> NoProxy, depth |-> 0, n |-> 0]

\* the test of lines 131-133
PMValid(ps) ==
    {i \in DOMAIN ps :
        /\ ps[i].consecutive_failures < max_failures
        /\ \/ ~ps[i].used
           \/ pm_now - ps[i].last_used > rotation_interval}

\* lines 136-140: with no valid proxy every consecutive_failures is set to 0
PMAfterSelect(ps) ==
    IF ps # <<>> /\ PMValid(ps) = {}
    THEN [i \in DOMAIN ps |-> [ps[i] EXCEPT !.consecutive_failures = 0]]
    ELSE ps

\* success_rate of a below success_rate of b, lines 163-166: the quotient
\* successful_requests / total_requests, 0.0 with no request
PMRateLess(a, b) ==
    LET da == IF a.total_requests > 0 THEN a.total_requests ELSE 1
        db == IF b.total_requests > 0 THEN b.total_requests ELSE 1
    IN a.successful_requests * db < b.successful_requests * da

\* the key of line 144, (success_rate, -consecutive_failures), of a below b
PMKeyLess(a, b) ==
    \/ PMRateLess(a, b)
    \/ /\ ~PMRateLess(b, a)
       /\ a.consecutive_failures > b.consecutive_failures

\* select_best_proxy, lines 119-145: None with no proxy at all; otherwise
\* max() over the valid proxies, or over all of them when none is valid: the
\* first of the list among those with the largest key
PMSelectBestProxy(ps) ==
    IF ps = <<>> THEN NoProxy
    ELSE LET after == PMAfterSelect(ps)
             candidates == IF PMValid(ps) = {} THEN DOMAIN ps ELSE PMValid(ps)
         IN CHOOSE i \in candidates :
                \A j \in candidates :
                    /\ ~PMKeyLess(after[i], after[j])
                    /\ j < i => PMKeyLess(after[j], after[i])

\* update_proxy_metrics(proxy, success), lines 147-166
PMUpdateProxyMetrics(ps, p, success) ==
    [ps EXCEPT ![p] =
        [total_requests |-> @.total_requests + 1,
         successful_requests |-> @.successful_requests + (IF success THEN 1 ELSE 0),
         used |-> TRUE,
         last_used |-> pm_now,
         consecutive_failures |-> IF success THEN 0 ELSE @.consecutive_failures + 1]]

\* download_with_proxy is called, lines 178-196: it selects a proxy and
\* suspends in client.request, through the proxy or, with none, directly
PMDownloadWithProxy ==
    /\ PMFrame
    /\ pm_call.pc \in {"idle", "returned", "raised"}
    /\ pm_call.n < MaxPmCalls
    /\ pm_proxies' = PMAfterSelect(pm_proxies)
    /\ pm_call' = [pc |-> "request", proxy |-> PMSelectBestProxy(pm_proxies),
                   depth |-> 1, n |-> pm_call.n + 1]
    /\ UNCHANGED pm_now

\* client.request returned, lines 182-183 and 196-200; every enclosing call
\* returns the response at line 209
PMRequestReturns ==
    /\ PMFrame
    /\ pm_call.pc = "request"
    /\ pm_proxies' = IF pm_call.proxy = NoProxy THEN pm_proxies
                     ELSE PMUpdateProxyMetrics(pm_proxies, pm_call.proxy, TRUE)
    /\ pm_call' = [pm_call EXCEPT !.pc = "returned"]
    /\ UNCHANGED pm_now

\* client.request raised.  Of the direct request, line 182, the exception is
\* the call's, and that of every enclosing call (line 209 is outside their
\* try).  Of the request through the proxy: lines 202-209, the failure is
\* recorded and download_with_proxy called again, which runs to its own
\* client.request.
PMRequestRaises ==
    /\ PMFrame
    /\ pm_call.pc = "request"
    /\ IF pm_call.proxy = NoProxy
       THEN /\ pm_call' = [pm_call EXCEPT !.pc = "raised"]
            /\ UNCHANGED pm_proxies
       ELSE /\ pm_call.depth < MaxPmDepth
            /\ LET recorded == PMUpdateProxyMetrics(pm_proxies, pm_call.proxy, FALSE) IN
               /\ pm_proxies' = PMAfterSelect(recorded)
               /\ pm_call' = [pm_call EXCEPT !.proxy = PMSelectBestProxy(recorded),
                                             !.depth = @ + 1]
    /\ UNCHANGED pm_now

\* time passes
PMTick ==
    /\ PMFrame
    /\ pm_now < MaxPmTime
    /\ pm_now' = pm_now + 1
    /\ UNCHANGED <<pm_proxies, pm_call>>

PMNext ==
    \/ PMDownloadWithProxy
    \/ PMRequestReturns
    \/ PMRequestRaises
    \/ PMTick

\* ====================================================== specifications
JobsStart ==
    /\ impl \in {"DM", "DQ"}
    /\ max_concurrent \in 1..MaxConcurrent
    /\ ret = NoCall
    /\ started = <<>>
    /\ DMInit
    /\ DQInit

JobsIdle ==
    /\ impl = "DM"
    /\ max_concurrent = 1
    /\ ret = NoCall
    /\ started = <<>>
    /\ DMInit
    /\ DQInit

JobsNext == DMNext \/ DQNext

SysInit(c) ==
    /\ IF c = "jobs" THEN JobsStart ELSE JobsIdle
    /\ BotInit
    /\ RLInit
    /\ DSInit
    /\ CacheInit
    /\ NMInit(IF c = "nm concurrent" THEN MaxProcs ELSE 1)
    /\ BWInit
    /\ PTInit(IF c = "pt" THEN BOOLEAN ELSE {FALSE})
    /\ PMInit(IF c = "pm" THEN 0..MaxProxies ELSE {0})

SpecJobs == SysInit("jobs") /\ [][JobsNext]_vars
SpecBot == SysInit("bot") /\ [][BotNext]_vars
SpecRate == SysInit("rl") /\ [][RLNext]_vars
SpecService == SysInit("ds") /\ [][DSNext]_vars
SpecCache == SysInit("cache") /\ [][CacheNext]_vars
SpecNotify == SysInit("nm") /\ [][NMNext]_vars
SpecBandwidth == SysInit("bw") /\ [][BWNext]_vars
SpecProgress == SysInit("pt") /\ [][PTNext]_vars
SpecProxy == SysInit("pm") /\ [][PMNext]_vars

\* queueing and processing with MaxProcs invocations at a time
SpecNotifyConcurrent == SysInit("nm concurrent") /\ [][NMQueueNext]_vars

\* A delivery returns in the end, with True or with False; nothing obliges
\* anybody to queue a notification, to call process or to ask for a status.
FairNotify ==
    /\ SysInit("nm")
    /\ [][NMQueueNext]_vars
    /\ WF_vars(\E p \in Procs : NMSendSucceeds(p) \/ NMSendFails(p))

\* The event loop runs every callback that is ready and every timer that is
\* due, and a download returns or raises in the end; submissions and
\* cancellations come from outside and need not happen.
JobsFairness ==
    /\ WF_vars(DMStartDownloadQueue)
    /\ WF_vars(DMLoopWake)
    /\ WF_vars(DMTaskStart)
    /\ WF_vars(\E j \in dm_running : DMTaskSucceed(j) \/ DMTaskFail(j))
    /\ WF_vars(DQStartProcessing)
    /\ WF_vars(DQLoopTurn)
    /\ WF_vars(DQLoopResume)
    /\ WF_vars(DQTaskStart)
    /\ WF_vars(\E j \in dq_running : DQTaskFinish(j))

FairJobs == SpecJobs /\ JobsFairness

\* the event loop alone is fair: a started loop wakes from its sleep, a created
\* task begins, a download returns or raises; start_download_queue and
\* start_processing are calls from outside, and no code of the repository
\* makes them a second time.
SchedulerFairness ==
    /\ WF_vars(DMLoopWake)
    /\ WF_vars(DMTaskStart)
    /\ WF_vars(\E j \in dm_running : DMTaskSucceed(j) \/ DMTaskFail(j))
    /\ WF_vars(DQLoopTurn)
    /\ WF_vars(DQLoopResume)
    /\ WF_vars(DQTaskStart)
    /\ WF_vars(\E j \in dq_running : DQTaskFinish(j))

FairScheduler == SpecJobs /\ SchedulerFairness

\* ------------------------------------------------ the jobs, as the spec sees them
JobUser(j) == IF impl = "DM" THEN dm_items[j].user_id ELSE dq_items[j].user_id
\* Pending: in the pending list
PendingList == IF impl = "DM" THEN dm_download_queue ELSE dq_queue
Pending == SeqToSet(PendingList)
\* taken off the pending list, its task created and not yet begun
Created == IF impl = "DM" THEN SeqToSet(dm_ready) ELSE SeqToSet(dq_ready)
\* Running: its task has begun and has not ended
Running == IF impl = "DM" THEN dm_running ELSE dq_running
NonTerminal(u) == {j \in Pending \cup Created \cup Running : JobUser(j) = u}

\* C1: at every instant at most max_concurrent jobs are Running.
C1_RunningAtMostMaxConcurrent == Cardinality(Running) <= max_concurrent

\* C2: every requester has at most one job that is Pending or Running (there
\* is no multi-job mode in the code), a second submit being rejected.
C2_OneActiveJobPerRequester == \A u \in Users : Cardinality(NonTerminal(u)) <= 1

\* C5: the head of the pending list becomes Running in the end.
C5_PendingHeadEventuallyRuns ==
    \A j \in 1..MaxJobs :
        (PendingList # <<>> /\ Head(PendingList) = j) ~> (j \in Running)

\* job ids are given in the order of submission
RECURSIVE Increasing(_)
Increasing(s) ==
    Len(s) < 2 \/ (s[1] < s[2] /\ Increasing(Tail(s)))

NoJobFailed == impl = "DM" => \A j \in DOMAIN dm_items : dm_items[j].retries = 0

\* C6: with max_concurrent = 1 and no failing job, jobs begin to run in the
\* order of their submission.
C6_FifoStartOrder ==
    (max_concurrent = 1 /\ NoJobFailed) => Increasing(started)

C6_Witness ==
    /\ max_concurrent = 1
    /\ NoJobFailed
    /\ Len(started) >= 3

\* a call of cancel for requester u has just returned or raised
CancelStep(u) ==
    /\ ret' # ret
    /\ ret'.op \in {"cancel_download", "cancel_handler"}
    /\ ret'.user = u

\* C9: cancel for a requester whose job is Pending returns true and takes the
\* job off the pending list.
C9_CancelPendingRemovesJob ==
    [][\A u \in Users :
          (CancelStep(u) /\ \E j \in Pending : JobUser(j) = u)
          => /\ ret'.value = "True"
             /\ \A j \in Pending : JobUser(j) = u => j \notin Pending']_vars

\* C10: cancel for a requester whose job is Running returns true, and the job
\* goes on running until it sees the signal.
C10_CancelRunningReturnsTrue ==
    [][\A u \in Users :
          (CancelStep(u) /\ \E j \in Running : JobUser(j) = u)
          => /\ ret'.value = "True"
             /\ Running' = Running]_vars

\* C11: cancel for a requester with no Pending or Running job returns a false
\* value, raises nothing and leaves the queues as they were (so that a second
\* cancel leaves what the first left).
C11_CancelAbsentReturnsFalse ==
    [][\A u \in Users :
          (CancelStep(u) /\ NonTerminal(u) = {})
          => /\ ret'.value \in {"False", None}
             /\ UNCHANGED <<dmVars, dqVars>>]_vars

\* a call of get_queue_position for requester u has just returned
PositionStep(u) ==
    /\ ret' # ret
    /\ ret'.op = "get_queue_position"
    /\ ret'.user = u

\* the places of requester u's jobs in the pending list
PendingPlaces(u) == {i \in DOMAIN PendingList : JobUser(PendingList[i]) = u}

\* C12: get_position returns the 1-based index of the requester's job in the
\* pending list (the first of them, should the requester have several), and
\* null when the requester has no job there: its job is Running, or it has none.
C12_PositionIsPendingIndex ==
    [][\A u \in Users :
          PositionStep(u)
          => IF PendingPlaces(u) = {}
             THEN ret'.value = None
             ELSE /\ ret'.value = "int"
                  /\ ret'.pos \in PendingPlaces(u)
                  /\ \A i \in PendingPlaces(u) : ret'.pos <= i]_vars

\* get_position has answered with a place behind the head of the list, and
\* has answered null for a requester whose job is Running
C12_Witness ==
    /\ impl = "DQ"
    /\ ret.op = "get_queue_position"
    /\ \/ ret.pos = 2 /\ Len(PendingList) >= 2 /\ JobUser(PendingList[2]) = ret.user
       \/ /\ ret.value = None
          /\ \E j \in Running : JobUser(j) = ret.user

\* the download tasks of requester u that are created and have not ended
BotLiveTasks(u) ==
    {h \in DOMAIN bot_updates :
        bot_updates[h].user = u /\ bot_updates[h].task \in {"created", "running"}}

\* C3: of two interleaved submissions of one requester at most one starts a
\* download task, so a requester never has two live tasks.
C3_AtMostOneTaskPerRequester == \A u \in Users : Cardinality(BotLiveTasks(u)) <= 1

\* C4: a job that has failed for good was executed max_retries + 1 times.
C4_FailedAfterMaxRetriesPlusOne ==
    \A t \in Tracks :
        ds_progress[t].pc = "raised" => ds_progress[t].attempts = ds_max_retries + 1

\* the calls of wait(k) that returned, in the order of their return
LogOf(k) == SelectSeq(rl_log, LAMBDA e : e.key = k)
AdmittedIn(k, t) ==
    {i \in DOMAIN rl_log :
        rl_log[i].key = k /\ rl_log[i].t >= t /\ rl_log[i].t < t + time_frame}

\* C7: for every key, at most max_calls calls of wait return within any
\* interval of length time_frame, whatever the interleaving of the callers.
C7_AtMostMaxCallsPerWindow ==
    \A k \in Keys, t \in 0..MaxTime : Cardinality(AdmittedIn(k, t)) <= max_calls

\* key k has had one caller only
SingleCaller(k) ==
    \E c \in Callers :
        /\ \A i \in DOMAIN rl_log : rl_log[i].key = k => rl_log[i].caller = c
        /\ \A d \in Callers :
               (rl_waiters[d].pc = "sleep" /\ rl_waiters[d].key = k) => d = c

\* C8: with a single caller on a key, the first max_calls calls of wait return
\* without suspending, and call max_calls + 1 returns no earlier than
\* time_frame after the first.
C8_SingleCallerDelay ==
    \A k \in Keys :
        SingleCaller(k) =>
            LET L == LogOf(k) IN
            /\ \A i \in DOMAIN L : i <= max_calls => ~L[i].slept
            /\ Len(L) > max_calls => L[max_calls + 1].t >= L[1].t + time_frame

C8_Witness ==
    \E k \in Keys :
        /\ SingleCaller(k)
        /\ Len(LogOf(k)) > max_calls
        /\ LogOf(k)[max_calls + 1].slept
        /\ LogOf(k)[max_calls + 1].t = LogOf(k)[1].t + time_frame

\* a call of get(k) has just returned or raised
CacheGetStep(k) ==
    /\ cache_ret' # cache_ret
    /\ cache_ret'.op = "get"
    /\ cache_ret'.key = k

\* the stored entry has an age: its timestamp is a number
CacheHasAge(f) == f.kind \in {"object", "no_value"}
CacheAge(f) == cache_now - f.timestamp

\* C13: get never returns a value whose age exceeds ttl; a get that finds an
\* entry older than ttl removes it from the store and returns null.
C13_NoStaleValueReturned ==
    [][\A k \in CacheKeys :
          CacheGetStep(k)
          => /\ cache_ret'.value # None
                => /\ CacheHasAge(cache_files[k])
                   /\ CacheAge(cache_files[k]) <= max_age
             /\ (CacheHasAge(cache_files[k]) /\ CacheAge(cache_files[k]) > max_age)
                => /\ cache_ret'.value = None
                   /\ cache_ret'.raised = None
                   /\ cache_files'[k] = NoFile]_vars

\* a get has found the entry of a set made more than ttl ago and removed it
C13_Witness ==
    /\ cache_ret.op = "get"
    /\ cache_ret.unlinked
    /\ cache_ret.value = None
    /\ cache_last_set[cache_ret.key].made
    /\ cache_now - cache_last_set[cache_ret.key].t = max_age + 1

\* C14: after set(k, v), get(k) returns v as long as no more than ttl has
\* elapsed since the set, and null on every call after that, until the next set.
C14_SetGetRoundTrip ==
    [][\A k \in CacheKeys :
          (CacheGetStep(k) /\ cache_last_set[k].made)
          => /\ cache_ret'.raised = None
             /\ cache_ret'.value =
                   IF cache_now - cache_last_set[k].t <= max_age
                   THEN cache_last_set[k].value ELSE None]_vars

\* the entry is malformed
CacheMalformed(f) == f.kind \in MalformedKinds

\* C15: get on a key whose stored entry is malformed returns null, removes the
\* entry and raises nothing.
C15_MalformedEntryEvicted ==
    [][\A k \in CacheKeys :
          (CacheGetStep(k) /\ CacheMalformed(cache_files[k]))
          => /\ cache_ret'.value = None
             /\ cache_ret'.raised = None
             /\ cache_files'[k] = NoFile]_vars

\* C16: set on an existing key replaces the value and restarts its age: a get
\* within ttl of the latest set returns the latest value, however old the
\* entry it replaced.
C16_SetOverwritesAndRestartsAge ==
    [][\A k \in CacheKeys :
          (/\ CacheGetStep(k)
           /\ cache_last_set[k].made
           /\ cache_last_set[k].over
           /\ cache_now - cache_last_set[k].t <= max_age)
          => /\ cache_ret'.raised = None
             /\ cache_ret'.value = cache_last_set[k].value]_vars

\* a get has returned the value of a set that replaced an entry older than ttl
C16_Witness ==
    /\ cache_ret.op = "get"
    /\ cache_ret.value # None
    /\ cache_last_set[cache_ret.key].made
    /\ cache_last_set[cache_ret.key].stale
    /\ cache_ret.value = cache_last_set[cache_ret.key].value
    /\ cache_now > cache_last_set[cache_ret.key].t

\* ------------------------------------- the notifications, as the spec sees them
\* some invocation of process holds notification n between pop and classification
NMHeld(n) == \E p \in Procs : nm_proc[p].pc = "send" /\ nm_proc[p].cur = n
NMProcessing == \E p \in Procs : nm_proc[p].pc = "send"

\* the spec's order of delivery: priority descending, created_at ascending
NMSpecBefore(a, b) ==
    \/ nm_notes[a].priority > nm_notes[b].priority
    \/ /\ nm_notes[a].priority = nm_notes[b].priority
       /\ nm_notes[a].created_at < nm_notes[b].created_at

\* an attempt to deliver n begins in this step
NMAttemptStep(n) == nm_notes'[n].attempts = nm_notes[n].attempts + 1

\* C17: process attempts delivery by descending priority and, among equal
\* priorities, oldest first: the notification it takes is behind none of the
\* unexpired notifications it leaves in the queue.
C17_PriorityThenOldestFirst ==
    [][\A n \in Notes :
          NMAttemptStep(n)
          => \A m \in SeqToSet(nm_queue') :
                ~NMIsExpired(m) => ~NMSpecBefore(m, n)]_vars

\* how often n stands in a list
Occurrences(seq, n) == Cardinality({i \in DOMAIN seq : seq[i] = n})
\* how many terminal classifications n has: Sent, Failed, Expired
NMClassCount(n) ==
    Occurrences(nm_sent, n) + Occurrences(nm_failed, n)
        + (IF n \in nm_expired THEN 1 ELSE 0)
\* n has left the active queue for good, with one classification
NMTerminal(n) ==
    /\ n \in Notes
    /\ n \notin SeqToSet(nm_queue)
    /\ ~NMHeld(n)
    /\ NMClassCount(n) = 1

\* C18: a notification in the active queue while process runs leaves the
\* queue in the end with exactly one of Sent, Expired (line 133) and Failed;
\* no notification ever has two of them, and none comes back once it has one.
C18_ExactlyOneTerminalClass ==
    /\ \A n \in 1..MaxNotes :
          (n \in SeqToSet(nm_queue) /\ NMProcessing) ~> NMTerminal(n)
    /\ [](\A n \in Notes : NMClassCount(n) <= 1)
    /\ [][\A n \in Notes : NMTerminal(n) => NMTerminal(n)']_vars

\* every notification queued has its classification, one of each kind being there
C18_Witness ==
    /\ Len(nm_notes) = MaxNotes
    /\ \A n \in Notes : NMTerminal(n)
    /\ nm_sent # <<>>
    /\ nm_failed # <<>>
    /\ nm_expired # {}

\* a call of get_notification_status(n) has just returned
NMStatusStep(n) ==
    /\ nm_ret' # nm_ret
    /\ nm_ret'.id = n

\* C19: a notification that process found expired is kept in the audit record
\* and get_notification_status reports it.
C19_ExpiredIsReported ==
    [][\A n \in Notes :
          (NMStatusStep(n) /\ n \in nm_expired) => nm_ret'.status # None]_vars

\* the delivery of n, held by an invocation of process, has just failed
NMFailStep(n) ==
    /\ NMHeld(n)
    /\ \/ nm_notes'[n].retry_count # nm_notes[n].retry_count
       \/ nm_failed' = Append(nm_failed, n)

\* C20: a failed delivery puts the notification back with retry_count + 1 while
\* retry_count < max_retries and classifies it Failed otherwise, so that a
\* Failed notification was attempted max_retries + 1 times; the failure stays
\* inside process (NMSendFails is the return of False, whatever was raised).
C20_RetryThenFailed ==
    /\ [][\A n \in Notes :
             NMFailStep(n)
             => IF nm_notes[n].retry_count < nm_max_retries
                THEN /\ nm_notes'[n].retry_count = nm_notes[n].retry_count + 1
                     /\ nm_failed' = nm_failed
                     /\ \/ n \in SeqToSet(nm_queue')
                        \/ NMHeld(n)'
                        \/ n \in nm_expired'
                ELSE /\ nm_failed' = Append(nm_failed, n)
                     /\ nm_notes'[n].retry_count = nm_notes[n].retry_count
                     /\ n \notin SeqToSet(nm_queue')]_vars
    /\ [](\A n \in Notes :
             n \in SeqToSet(nm_failed)
             => /\ nm_notes[n].attempts = nm_max_retries + 1
                /\ nm_notes[n].retry_count = nm_max_retries)

\* a notification is Failed, and another waits in the queue after a failure
C20_Witness ==
    /\ nm_failed # <<>>
    /\ \E n \in SeqToSet(nm_queue) : nm_notes[n].retry_count > 0

\* C21: no delivery is attempted for a notification whose expires_at has
\* passed when it is popped, be it popped for the first time or for a retry.
C21_NoAttemptAfterExpiry ==
    [][\A n \in Notes :
          NMAttemptStep(n)
          => \/ nm_notes[n].expires_at = NoExpiry
             \/ nm_now <= nm_notes[n].expires_at]_vars

\* a notification attempted once was found expired when popped for its retry
C21_Witness ==
    \E n \in nm_expired :
        /\ nm_notes[n].retry_count > 0
        /\ nm_notes[n].attempts = nm_notes[n].retry_count

\* ---------------------------------------------------- BandwidthTracker
\* the step is a call op of the tracker for user u
BWStep(op, u) == bw_ret' # bw_ret /\ bw_ret'.op = op /\ bw_ret'.user = u

\* the series a call for u reads: u's own, or the global one for no user
BWHeld(u) == IF u = NoUser THEN bw_global ELSE BWSeries(u)

\* the age of a record
BWAge(r) == bw_now - r.timestamp

\* the sum of the bytes of the records of a series at the places S
RECURSIVE BWSumOver(_, _)
BWSumOver(S, records) ==
    IF S = {} THEN 0
    ELSE LET i == CHOOSE x \in S : TRUE
         IN  records[i].bytes_transferred + BWSumOver(S \ {i}, records)

\* the places of the records of u that are at most window_size old
BWInWindow(u) == {i \in DOMAIN BWHeld(u) : BWAge(BWHeld(u)[i]) <= window_size}

BWYoung(records) == SelectSeq(records, LAMBDA r : BWAge(r) <= window_size)

\* the n newest records of a series
BWNewest(records, n) ==
    SubSeq(records, IF Len(records) > n THEN Len(records) - n + 1 ELSE 1, Len(records))

\* the record a step of record_bandwidth made
BWRecorded == [timestamp |-> bw_now, bytes_transferred |-> bw_ret'.value, duration |-> 1]

\* the series of every user but u are what they were
BWOthersUnchanged(u) ==
    \A v \in Users \ {u} :
        /\ (v \in DOMAIN bw_user') <=> (v \in DOMAIN bw_user)
        /\ BWSeries(v)' = BWSeries(v)

\* C23, as claimed: record_bandwidth(user, ...) appends one record to the
\* user's series and one to the global series and removes from the two only
\* records older than window_size; the other users' series are unchanged.
C23_RecordRemovesOnlyOld ==
    [][\A u \in Users :
          BWStep("record", u)
          => /\ BWSeries(u)' = Append(BWYoung(BWSeries(u)), BWRecorded)
             /\ bw_global' = Append(BWYoung(bw_global), BWRecorded)
             /\ BWOthersUnchanged(u)]_vars

\* C23, amended: the global series loses only records older than window_size;
\* the user's series loses those and, where more than max_records would
\* remain, the oldest of the rest; the other users' series are unchanged.
C23_RecordPrunesAndLimits ==
    [][\A u \in Users :
          BWStep("record", u)
          => /\ BWSeries(u)' =
                   BWNewest(Append(BWYoung(BWSeries(u)), BWRecorded), max_records)
             /\ bw_global' = Append(BWYoung(bw_global), BWRecorded)
             /\ BWOthersUnchanged(u)]_vars

\* a record was made for a user at time 0, when no record is older than the
\* window, and a record left the user's series all the same
C23_Witness ==
    /\ bw_ret.op = "record"
    /\ bw_ret.user # NoUser
    /\ bw_now = 0
    /\ bw_ret.removed > 0
    /\ Len(BWSeries(bw_ret.user)) = max_records

\* C24: reset_bandwidth_tracking(u) clears only u's series, the global series
\* and the other users' series stay; with no user it clears only the global
\* series and every user's series stays.
C24_ResetClearsOneSeries ==
    [][\A u \in Users \cup {NoUser} :
          BWStep("reset", u)
          => IF u = NoUser
             THEN bw_global' = <<>> /\ bw_user' = bw_user
             ELSE /\ BWSeries(u)' = <<>>
                  /\ bw_global' = bw_global
                  /\ BWOthersUnchanged(u)]_vars

\* a user's records were cleared while the global series and another user's
\* series hold records
C24_Witness ==
    /\ bw_ret.op = "reset"
    /\ bw_ret.user # NoUser
    /\ bw_ret.removed > 0
    /\ BWSeries(bw_ret.user) = <<>>
    /\ bw_global # <<>>
    /\ \E v \in Users \ {bw_ret.user} : BWSeries(v) # <<>>

\* ----------------------------------------------------- ProgressTracker
\* C25: of any two calls of update_progress made less than one throttle
\* interval (one second) apart, at most one invokes the callback.
C25_OneEventPerInterval ==
    \A i, j \in DOMAIN pt_log :
        (i < j /\ pt_log[j].at - pt_log[i].at < TicksPerSecond)
        => ~(pt_log[i].emitted /\ pt_log[j].emitted)

\* ------------------------------------------------------ DownloadManager
\* the job failed with retries remaining and is back in the pending list
DMRetried(j) ==
    /\ impl = "DM"
    /\ j \in SeqToSet(dm_download_queue)
    /\ dm_items[j].retries > 0

\* C26: a job that failed with retries remaining is executed again in the
\* end, whatever the pending list held when it was re-appended.
C26_RetriedJobRunsAgain ==
    \A j \in 1..MaxJobs : DMRetried(j) ~> (j \in dm_running)

\* the step is job j failing with retries remaining: it goes back to the list
DMRetryStep(j) ==
    /\ impl = "DM"
    /\ j \in DOMAIN dm_items
    /\ dm_items'[j].retries = dm_items[j].retries + 1
    /\ dm_items'[j].status # "failed"

\* a retried job goes behind every job that is pending at that moment
DMRetryGoesToTail ==
    [][\A j \in 1..MaxJobs :
          DMRetryStep(j) => dm_download_queue' = Append(dm_download_queue, j)]_vars

\* C27: a retried job is re-appended behind every job pending at that
\* moment, and so, however often a job fails, a job in the pending list of
\* the running loop runs in the end.
C27_RetryBlocksNobody ==
    /\ DMRetryGoesToTail
    /\ \A k \in 1..MaxJobs :
          (impl = "DM" /\ dm_loop = "sleep" /\ k \in SeqToSet(dm_download_queue))
          ~> (k \in dm_running)

\* the running loop holds a job that failed and was re-appended, behind a job
\* that has not run yet
C27_Witness ==
    /\ impl = "DM"
    /\ dm_loop = "sleep"
    /\ \E a, b \in DOMAIN dm_download_queue :
          /\ a < b
          /\ dm_items[dm_download_queue[a]].retries = 0
          /\ dm_items[dm_download_queue[b]].retries > 0

\* the step is one of a job's task: the task begins, or its download ends
TaskStep == dm_running' # dm_running \/ dq_running' # dq_running

\* C28: the pending list, the running set and the history are written by the
\* scheduler loop alone: a step of a job's task leaves them as they are.
C28_TasksWriteNoCollection ==
    [][TaskStep
       => UNCHANGED <<dm_download_queue, dm_active_downloads, dm_download_history,
                      dq_queue, dq_current_downloads>>]_vars

\* ------------------------------------------------------ DownloadService
\* the track has attempts left
DSRetriesRemain(t) == ds_progress[t].attempts < ds_max_retries

\* C29: while a track has retries remaining its status is never failed; the
\* status failed comes with the error of the last attempt.
C29_FailedOnlyAfterLastAttempt ==
    \A t \in Tracks :
        ds_progress[t].status = "failed"
        => /\ ~DSRetriesRemain(t)
           /\ ds_progress[t].error = DSAttemptError

\* Succeeded or Failed: the status the task set last
DMTerminal(j) == dm_items[j].status \in {"completed", "failed"}

\* C30: a job that reached Succeeded or Failed is exactly once in the history
\* and neither in the pending list nor in the running set; a job that is
\* Pending or Running is not in the history.
C30_TerminalJobsInHistoryOnce ==
    impl = "DM" =>
        \A j \in DOMAIN dm_items :
            /\ DMTerminal(j)
               => /\ Occurrences(dm_download_history, j) = 1
                  /\ j \notin Pending \cup Created \cup Running
            /\ j \in Pending \cup Created \cup Running
               => Occurrences(dm_download_history, j) = 0

\* the history holds a completed job and a job that failed for good, while
\* another job is pending or running
C30_Witness ==
    /\ impl = "DM"
    /\ \E j, k \in SeqToSet(dm_download_history) :
          dm_items[j].status = "completed" /\ dm_items[k].status = "failed"
    /\ Pending \cup Running # {}

\* the delays a track waited are retry_delay, 2 * retry_delay, and so on
DSDelaysLinear(t) ==
    \A k \in DOMAIN ds_progress[t].delays :
        ds_progress[t].delays[k] = ds_retry_delay * k

\* C31: the delay waited before the k-th retry is retry_delay * k, for every
\* k from 1 to max_retries: a track that failed for good waited max_retries
\* delays, and they are linear.
C31_LinearBackoff ==
    \A t \in Tracks :
        /\ DSDelaysLinear(t)
        /\ ds_progress[t].pc = "raised"
           => Len(ds_progress[t].delays) = ds_max_retries

\* -------------------------------------------------------- AppleMusicBot
\* the calls a task has made hold a before b
BotCalledBefore(t, a, b) ==
    \E i, j \in DOMAIN t.calls : i < j /\ t.calls[i] = a /\ t.calls[j] = b

BotCalled(t, a) == \E i \in DOMAIN t.calls : t.calls[i] = a

\* C32: a request with an unexpired cache entry skips rate_limiter.wait and
\* the resolution and then goes on as a request that missed and resolved: it
\* fails only where a collaborator raises or it is cancelled; the resolution
\* is called only on a miss and only after rate_limiter.wait returned.
C32_CacheHitProceedsAsMiss ==
    \A h \in DOMAIN bot_updates :
        LET t == bot_updates[h] IN
        /\ t.cached = "hit"
           => /\ ~BotCalled(t, "rate_limiter.wait")
              /\ ~BotCalled(t, "_get_track_info")
              /\ t.raised \in {None, "collaborator", "CancelledError"}
        /\ BotCalled(t, "_get_track_info")
           => /\ t.cached = "miss"
              /\ BotCalledBefore(t, "rate_limiter.wait", "_get_track_info")

\* ------------------------------------------------- NotificationManager
\* invocation p is in a delivery; it has come to its end
NMSending(p) == p \in Procs /\ nm_proc[p].pc = "send"
NMAtEnd(p) == p \in Procs /\ nm_proc[p].pc = "idle"

\* C33: process_notification_queue terminates: whatever the deliveries
\* return, an invocation that sends comes to its end, it ends with the active
\* queue empty, and no notification is attempted more than max_retries + 1
\* times.
C33_ProcessTerminates ==
    /\ \A p \in 1..MaxProcs : NMSending(p) ~> NMAtEnd(p)
    /\ [][\A p \in Procs :
             (nm_proc[p].pc = "send" /\ nm_proc'[p].pc = "idle")
             => nm_queue' = <<>>]_vars
    /\ [](\A n \in Notes : nm_notes[n].attempts <= nm_max_retries + 1)

\* the loop has ended with nothing left, after a delivery that succeeded on
\* a retry and one that failed on every attempt
C33_Witness ==
    /\ \A p \in Procs : nm_proc[p].pc = "idle"
    /\ nm_queue = <<>>
    /\ \E n \in SeqToSet(nm_sent) : nm_notes[n].retry_count > 0
    /\ \E n \in SeqToSet(nm_failed) : nm_notes[n].attempts = nm_max_retries + 1

\* ---------------------------------------------------- BandwidthTracker
\* max(x, 1), x a time in ticks
BWAtLeastOneSecond(x) == IF x < TicksPerSecond THEN TicksPerSecond ELSE x

\* C34: transfer_rate is total_bytes / max(now - oldest timestamp, 1) and
\* average_speed is total_bytes / max(sum of durations, 1): the divisor is
\* never below one second, also for times between 0 and 1.
C34_DivisorAtLeastOne ==
    [][\A u \in Users \cup {NoUser} :
          (BWStep("calculate", u) /\ BWInWindow(u) # {})
          => LET records == BWYoung(BWHeld(u)) IN
             bw_ret'.divisors =
                <<BWAtLeastOneSecond(bw_now - records[1].timestamp),
                  BWAtLeastOneSecond(BWTotalDuration(records))>>]_vars

\* C35: a notification is delivered successfully at most once, also when
\* invocations of process_notification_queue run at the same time on the
\* one queue, interleaving at each delivery.
C35_SentAtMostOnce ==
    /\ \A n \in Notes : Occurrences(nm_sent, n) <= 1
    /\ \A p, q \in Procs :
          (p # q /\ nm_proc[p].pc = "send" /\ nm_proc[q].pc = "send")
          => nm_proc[p].cur # nm_proc[q].cur

\* two invocations are delivering at the same time, one of them a
\* notification that failed before, and a delivery has succeeded
C35_Witness ==
    /\ \E p, q \in Procs :
          /\ p # q
          /\ nm_proc[p].pc = "send"
          /\ nm_proc[q].pc = "send"
          /\ nm_notes[nm_proc[p].cur].retry_count > 0
    /\ nm_sent # <<>>

\* -------------------------------------------------------- DownloadQueue
\* C36: is_user_downloading(u) is true at every moment at which a job of
\* requester u is being processed, also when two jobs of u are processed at
\* once and one of them has finished.
C36_DownloadingWhileProcessed ==
    impl = "DQ" =>
        \A j \in dq_running : DQIsUserDownloading(dq_items[j].user_id)

\* ------------------------------------------------------- AppleMusicBot
\* the download task of update h ends in this step
BotTaskEnds(h) ==
    /\ h \in DOMAIN bot_updates
    /\ bot_updates[h].task = "running"
    /\ bot_updates'[h].task = "done"

\* a submission is rejected in this step as already having an active download
BotRejects(u) ==
    /\ Len(bot_updates') = Len(bot_updates) + 1
    /\ bot_updates'[Len(bot_updates')].user = u
    /\ bot_updates'[Len(bot_updates')].pc = "rejected"

PMProxyRequestFails ==
    /\ pm_call.pc = "request"
    /\ pm_call.proxy # NoProxy
    /\ pm_call'.depth = pm_call.depth + 1

\* C38: when the request through the selected proxy fails, the failure is
\* recorded for that proxy and the retry goes without a proxy, so one call
\* makes at most one request through a proxy and one direct request.
C38_RetryWithoutProxy ==
    /\ [][PMProxyRequestFails =>
            /\ pm_proxies'[pm_call.proxy].total_requests =
                   pm_proxies[pm_call.proxy].total_requests + 1
            /\ pm_call'.pc = "request"
            /\ pm_call'.proxy = NoProxy]_vars
    /\ [](pm_call.depth <= 2)

\* ---------------------------------------------------- BandwidthTracker
\* s is what is left of records when records are taken from its old end
BWIsSuffix(s, records) ==
    /\ Len(s) <= Len(records)
    /\ s = SubSeq(records, Len(records) - Len(s) + 1, Len(records))

====
